---------------------------- MODULE Spec2Model ----------------------------
(***************************************************************************)
(* A model of the emoji picker plugin                                      *)
(* (packages/ckeditor5-emoji/src/emojipicker.ts), of the integration with  *)
(* the emoji library (emojilibraryintegration.ts) and of the snippet       *)
(* adapter of the documentation build (scripts/docs/snippetadapter.mjs).   *)
(*                                                                         *)
(* The plugin loads the emoji groups from the emoji database when it is    *)
(* initialised, opens a picker panel in the contextual balloon on          *)
(* showUI(), recomputes the tile grid of a panel on every search, category *)
(* and skin tone event (_updateGrid), and inserts the emoji of an executed *)
(* tile in the document.  The database answers asynchronously: a pending   *)
(* call of _updateGrid is a continuation that runs when its query          *)
(* resolves, in any order with the other events.                           *)
(*                                                                         *)
(* Strings that the code measures (the search text) are sequences of       *)
(* one-character strings, so that .length is Len.  A JavaScript array is a *)
(* sequence: index k of the code is index k + 1 here.                      *)
(***************************************************************************)
EXTENDS Integers, Sequences, FiniteSets, TLC

VARIABLES
    dbGroups,           \* the database's content: databaseId -> the items of the group
    loads,              \* init(): the state of each _getEmojiGroup() promise
    initState,          \* the promise init() returns: "loading", "ready", "failed"
    emojis,             \* this._emojis: name -> the variants of the emoji
    emojiGroups,        \* this._emojiGroups
    selectedSkinTone,   \* this._selectedSkinTone
    searchQuery,        \* this._searchQuery
    emojiPickerView,    \* this._emojiPickerView: the panel created last, 0 for null
    panels,             \* every dropdownPanelContent created by showUI()
    balloon,            \* the view stack of the ContextualBalloon, visible view last
    doc,                \* the texts inserted by editor.execute( 'insertText' )
    unhandledRejection, \* a promise of the plugin was rejected and nobody handles it
    exception,          \* an event handler of the plugin threw
    lastExec,           \* history: what the last run of the 'execute' handler did
    events,             \* history: the user events handled so far
    \* EmojiLibraryIntegration and the feed function of getQueryEmojiFn
    integrationState,   \* the plugin: "constructed", "initialized", "destroyed"
    localDataUrl,       \* this.localDataUrl: an object URL, 0 for undefined
    objectUrls,         \* the object URLs the browser holds (created, not revoked)
    destroyCalls,       \* history: the calls of destroy() so far
    feed,               \* the feed function: its queryLimit and its current call
    \* snippetadapter.mjs
    constantsFiles,     \* the constants files on disk: directory -> files
    walk,               \* the activation of getConstantDefinitions
    adapter,            \* the activation of snippetAdapter: builds and documents
    resolve             \* a call of the 'external' plugin's onResolve callback

pickerVars == << dbGroups, loads, initState, emojis, emojiGroups, selectedSkinTone,
                 searchQuery, emojiPickerView, panels, balloon, doc,
                 unhandledRejection, exception, lastExec, events >>

integrationVars == << integrationState, localDataUrl, objectUrls, destroyCalls, feed >>

adapterVars == << constantsFiles, walk, adapter, resolve >>

vars == << pickerVars, integrationVars, adapterVars >>

-----------------------------------------------------------------------------
(* Bounds of the model. *)

\* The user events of one behaviour: calls of showUI, changes of the search
\* text, the category and the tone, executed tiles and clicks outside.
MaxEvents == 4
\* The largest skin tone the tone view offers.
MaxTone == 2
\* The largest tone of a skin in the databases the group load is checked with.
MaxSkinTone == 3
\* The largest queryLimit getQueryEmojiFn is called with.
MaxQueryLimit == 3
\* The most emoji the database returns to the feed function for one query.
MaxResults == 3
\* The calls of destroy() on the integration plugin.
MaxDestroys == 2
\* The most snippets the snippet adapter is called with.
MaxSnippets == 2
\* The longest import path the 'external' plugin is asked about, in characters.
MaxPathLen == 4

-----------------------------------------------------------------------------
(* Values. *)

\* The search text: null (the constructor's value) or a string.
NullQuery == [null |-> TRUE, value |-> <<>>]
Str(s) == [null |-> FALSE, value |-> s]

\* The search texts of the model: '', one of length 1, two of length 2.
SearchTexts == { <<>>, <<"w">>, <<"w", "a">>, <<"h", "a">> }

\* The values showUI is called with, besides undefined: '' and a search text.
ShowTexts == { <<>>, <<"w", "a">> }

\* The groups init() asks the database for, in the order of the Promise.all:
\* the first two of the nine; the others are loaded by the same code.
GroupDefs ==
    << [databaseId |-> 0, title |-> "Smileys & Expressions", exampleEmoji |-> "E0"],
       [databaseId |-> 1, title |-> "Gestures & People", exampleEmoji |-> "E1"] >>

GroupIndexes == 1 .. Len(GroupDefs)

Titles == { GroupDefs[g].title : g \in GroupIndexes }

\* Items of the database.  A native emoji has an annotation and a unicode, and
\* skins when it has skin tone variants; a custom emoji has a name and no
\* annotation.  The tones of an emoji's skins are 1 .. n, in any order.
Grin == [annotation |-> "grin", unicode |-> "G"]
Wave == [annotation |-> "wave", unicode |-> "W",
         skins |-> << [tone |-> 2, unicode |-> "W2"], [tone |-> 1, unicode |-> "W1"] >>]
Hand == [annotation |-> "hand", unicode |-> "H",
         skins |-> << [tone |-> 1, unicode |-> "H1"] >>]
\* An emoji of a group init() does not load (databaseId 2).
RedHair == [annotation |-> "red hair", unicode |-> "R"]
\* A custom emoji.
Custom == [name |-> "logo", url |-> "logo.png"]

DefaultDb == (0 :> << Grin, Wave >>) @@ (1 :> << Hand >>)

\* Database.getEmojiBySearchQuery( text ): the emoji the database's index matches,
\* in the database's order.
SearchResult(text) ==
    IF text = << "w", "a" >> THEN << Wave, RedHair, Grin >>
    ELSE IF text = << "h", "a" >> THEN << Custom, Hand, RedHair >>
    ELSE << >>

\* The databases the group load is checked with: group 0 holds Grin and an
\* emoji "a", group 1 an emoji "b"; "a" and "b" have no skins, or skins of
\* distinct tones of 1 .. MaxSkinTone in any order.
SkinGlyphsA == << "A1", "A2", "A3", "A4", "A5" >>
SkinGlyphsB == << "B1", "B2", "B3", "B4", "B5" >>

SkinOrders ==
    { order \in UNION { [ 1 .. n -> 1 .. MaxSkinTone ] : n \in 0 .. MaxSkinTone } :
        \A i, j \in DOMAIN order : i # j => order[i] # order[j] }

WithSkins(name, unicode, glyphs, order) ==
    [ annotation |-> name, unicode |-> unicode,
      skins |-> [ i \in DOMAIN order |-> [tone |-> order[i], unicode |-> glyphs[order[i]]] ] ]

ItemsA == { [annotation |-> "a", unicode |-> "A"] } \cup
          { WithSkins("a", "A", SkinGlyphsA, order) : order \in SkinOrders }
ItemsB == { [annotation |-> "b", unicode |-> "B"] } \cup
          { WithSkins("b", "B", SkinGlyphsB, order) : order \in SkinOrders }

LoadDbs == { (0 :> << Grin, a >>) @@ (1 :> << b >>) : a \in ItemsA, b \in ItemsB }

-----------------------------------------------------------------------------
(* _getEmojiGroup: one group of the database as a group of the picker. *)

\* `skin` put into skins that are sorted by tone: after the skins of a smaller
\* or an equal tone, before the skins of a greater one.
InsertByTone(skin, sorted) ==
    LET n == Cardinality({ i \in 1 .. Len(sorted) : sorted[i].tone <= skin.tone })
    IN  SubSeq(sorted, 1, n) \o << skin >> \o SubSeq(sorted, n + 1, Len(sorted))

\* Mutant of SortByTone: the skins are left in the database's order.
SortByToneOmitted(skins) == skins

\* skins.sort( ( a, b ) => a.tone - b.tone ): ascending by tone, and stable.
RECURSIVE SortByTone(_)
SortByTone(skins) ==
    IF skins = << >> THEN << >>
    ELSE InsertByTone(skins[Len(skins)], SortByTone(SubSeq(skins, 1, Len(skins) - 1)))

\* The variants of one database item: [ item.unicode ], then the unicode of
\* each skin, the skins sorted by tone.
Variants(item) ==
    IF "skins" \in DOMAIN item
    THEN << item.unicode >> \o
         [ i \in 1 .. Len(item.skins) |-> SortByTone(item.skins)[i].unicode ]
    ELSE << item.unicode >>

\* The callback of databaseGroup.map: the item of the group.
EmojiItem(item) == [name |-> item.annotation, emojis |-> Variants(item)]

\* this._emojis.set( name, emojis ) for each item, in the group's order.
RECURSIVE RegisterEmojis(_, _)
RegisterEmojis(map, items) ==
    IF items = << >> THEN map
    ELSE LET item == EmojiItem(items[1])
             set == [ n \in DOMAIN map \cup { item.name } |->
                        IF n = item.name THEN item.emojis ELSE map[n] ]
         IN  RegisterEmojis(set, SubSeq(items, 2, Len(items)))

\* The value _getEmojiGroup resolves to.
EmojiGroup(def, databaseGroup) ==
    [ title |-> def.title,
      exampleEmoji |-> def.exampleEmoji,
      items |-> [ i \in 1 .. Len(databaseGroup) |-> EmojiItem(databaseGroup[i]) ] ]

-----------------------------------------------------------------------------
(* _updateGrid and what it calls. *)

\* !this._searchQuery || this._searchQuery.length < 2
CategoryMode(query) ==
    query.null \/ Len(query.value) = 0 \/ Len(query.value) < 2

\* Mutant of Glyph: an emoji without the tone shows its nearest variant.
GlyphNearest(variants, tone) ==
    IF tone + 1 <= Len(variants) THEN variants[tone + 1] ELSE variants[Len(variants)]

\* item.emojis[ this._selectedSkinTone ] || item.emojis[ 0 ]
Glyph(variants, tone) ==
    IF tone + 1 <= Len(variants) /\ variants[tone + 1] # ""
    THEN variants[tone + 1]
    ELSE variants[1]

\* gridView.createTile( emoji, item.name )
CreateTile(emoji, name) == [emoji |-> emoji, name |-> name]

\* _addTilesToGrid: one tile per item, added to the end of the grid.
AddTilesToGrid(tiles, items, tone) ==
    tiles \o [ i \in 1 .. Len(items) |->
                 CreateTile(Glyph(items[i].emojis, tone), items[i].name) ]

\* _getEmojisForCategory: the items of the first group of that title.
GetEmojisForCategory(groups, groupName) ==
    LET found == { g \in 1 .. Len(groups) : groups[g].title = groupName }
        first == CHOOSE g \in found : \A h \in found : g <= h
    IN  groups[first].items

\* The callback of queryResult.map: the item of a queried emoji, or null.
NullItem == [name |-> "", emojis |-> << >>]
QueriedItem(map, queriedEmoji) ==
    LET name == IF "annotation" \in DOMAIN queriedEmoji
                THEN queriedEmoji.annotation ELSE ""
    IN  IF name \in DOMAIN map
        THEN [name |-> name, emojis |-> map[name]]
        ELSE NullItem

\* Mutant of TilesToAdd: the items up to the first null one.
RECURSIVE TilesToAddUntilNull(_, _)
TilesToAddUntilNull(map, queryResult) ==
    IF queryResult = << >> THEN << >>
    ELSE LET item == QueriedItem(map, queryResult[1])
         IN  IF item = NullItem THEN << >>
             ELSE << item >> \o
                  TilesToAddUntilNull(map, SubSeq(queryResult, 2, Len(queryResult)))

\* tilesToAdd.filter( Boolean ): the items that are not null, in order.
RECURSIVE TilesToAdd(_, _)
TilesToAdd(map, queryResult) ==
    IF queryResult = << >> THEN << >>
    ELSE LET item == QueriedItem(map, queryResult[1])
             rest == TilesToAdd(map, SubSeq(queryResult, 2, Len(queryResult)))
         IN  IF item = NullItem THEN rest ELSE << item >> \o rest

\* One call of _updateGrid as the panel remembers it: what triggered it, the
\* search text it read, and where it is: "sync" (it returned at the category
\* branch), "pending" (it awaits the database), "resolved", "rejected".
Call(trigger, query, status) ==
    [trigger |-> trigger, query |-> query, status |-> status]

Pending(calls) == { i \in 1 .. Len(calls) : calls[i].status = "pending" }

\* The calls a new call is appended to: the calls made since the panel last had
\* none in flight (a call that completed before that left nothing behind: every
\* call starts by clearing the grid).
OpenCalls(calls) == IF Pending(calls) = { } THEN << >> ELSE calls

\* _updateGrid up to its first await, on one panel: the grid is cleared; with a
\* search text shorter than 2 the tiles of the current category are added and
\* the categories enabled; otherwise the database is queried and the call waits.
UpdateGrid(panel, trigger, query, tone, groups) ==
    IF CategoryMode(query)
    THEN LET tiles == AddTilesToGrid(<< >>,
                          GetEmojisForCategory(groups, panel.currentCategoryName), tone)
         IN  [ panel EXCEPT
                 !.tiles = tiles,
                 !.toneOf = [ i \in 1 .. Len(tiles) |-> tone ],
                 !.categoriesEnabled = TRUE,
                 !.calls = Append(OpenCalls(panel.calls), Call(trigger, query, "sync")) ]
    ELSE [ panel EXCEPT
             !.tiles = << >>,
             !.toneOf = << >>,
             !.calls = Append(OpenCalls(panel.calls), Call(trigger, query, "pending")) ]

\* _updateGrid after its await, when the query resolved with queryResult: the
\* tiles of the result are added to the grid as it is now, at the tone selected
\* now, and the categories are disabled.
ResumeGrid(panel, i, queryResult, tone, map) ==
    LET tiles == AddTilesToGrid(panel.tiles, TilesToAdd(map, queryResult), tone)
    IN  [ panel EXCEPT
            !.tiles = tiles,
            !.toneOf = panel.toneOf \o
                       [ k \in 1 .. (Len(tiles) - Len(panel.tiles)) |-> tone ],
            !.categoriesEnabled = FALSE,
            !.calls[i].status = "resolved" ]

\* The panel content _createDropdownPanelContent makes, before its first
\* _updateGrid: the tone view starts at the selected tone, the categories view
\* at the first group.
NewPanel(tone, groups) ==
    [ tiles |-> << >>,
      toneOf |-> << >>,
      categoriesEnabled |-> TRUE,
      currentCategoryName |-> groups[1].title,
      tone |-> tone,
      calls |-> << >> ]

-----------------------------------------------------------------------------
(* The balloon. *)

\* ContextualBalloon.visibleView: the view added last, 0 when there is none.
VisibleView == IF balloon = << >> THEN 0 ELSE balloon[Len(balloon)]

InBalloon(view) == \E i \in 1 .. Len(balloon) : balloon[i] = view

\* ContextualBalloon.remove( view ), for a view the balloon has.
BalloonRemove(stack, view) == SelectSeq(stack, LAMBDA v : v # view)

-----------------------------------------------------------------------------
(* EmojiLibraryIntegration: the values of the feed function.  A string the  *)
(* code rewrites (the annotation of an emoji) is a sequence of characters.  *)

\* The native emoji the database returns to the feed function.
FeedEmoji ==
    { [annotation |-> << "g" >>, unicode |-> "G"],
      [annotation |-> << "F", ":", " ", "U" >>, unicode |-> "F"],
      [annotation |-> << "r", " ", "h" >>, unicode |-> "R"] }

\* The results of getEmojiBySearchQuery: the emoji in any order, up to MaxResults.
QueryResults == UNION { [ 1 .. n -> FeedEmoji ] : n \in 0 .. MaxResults }

\* The characters the pattern /[ :]+/ matches.
SpaceOrColon == { " ", ":" }

\* string.replace( /[ :]+/g, '_' ): each longest run of spaces and colons
\* becomes one underscore.
RECURSIVE ReplaceRuns(_)
ReplaceRuns(chars) ==
    IF chars = << >> THEN << >>
    ELSE IF chars[1] \in SpaceOrColon
    THEN IF Len(chars) > 1 /\ chars[2] \in SpaceOrColon
         THEN ReplaceRuns(Tail(chars))
         ELSE << "_" >> \o ReplaceRuns(Tail(chars))
    ELSE << chars[1] >> \o ReplaceRuns(Tail(chars))

\* string.toLocaleLowerCase(), on the letters of the model.
LowerCase(char) ==
    IF char = "F" THEN "f" ELSE IF char = "U" THEN "u" ELSE char

ToLocaleLowerCase(chars) == [ i \in 1 .. Len(chars) |-> LowerCase(chars[i]) ]

\* formatEmojiId( id ) of utils.js: the id between colons.
FormatEmojiId(id) == << ":" >> \o id \o << ":" >>

\* getShowAllEmojiId() of utils.js: the id of the 'show all emoji' item.
ShowAllEmojiId == << ":", "_", "_", "E", "M", "O", "J", "I", "_", "S", "H", "O", "W", "_", "A", "L", "L", ":" >>

\* The callback of queryResult.map in the feed function.
FeedItem(emoji) ==
    [ id |-> FormatEmojiId(ToLocaleLowerCase(ReplaceRuns(emoji.annotation))),
      text |-> emoji.unicode ]

\* Mutant of KeptByLimit: the items of index < queryLimit are kept.
KeptByLimitOffByOne(index, queryLimit) == index < queryLimit

\* The callback of processedQuery.filter: ( item, index ) => index < queryLimit - 1,
\* index counted from 0.
KeptByLimit(index, queryLimit) == index < queryLimit - 1

\* array.filter with the callback KeptByLimit: the items kept, in order; index
\* is the index of the first item.
RECURSIVE FilterByLimit(_, _, _)
FilterByLimit(items, index, queryLimit) ==
    IF items = << >> THEN << >>
    ELSE (IF KeptByLimit(index, queryLimit) THEN << items[1] >> ELSE << >>) \o
         FilterByLimit(Tail(items), index + 1, queryLimit)

\* What the feed function returns when the database resolved with queryResult.
QueryEmojiFn(queryLimit, queryResult) ==
    LET processedQuery == [ i \in 1 .. Len(queryResult) |-> FeedItem(queryResult[i]) ]
    IN  FilterByLimit(processedQuery, 0, queryLimit) \o << [id |-> ShowAllEmojiId] >>

\* The feed function before getQueryEmojiFn made it.
NoFeed == [ status |-> "none", queryLimit |-> 0, queryResult |-> << >>, items |-> << >> ]

\* The integration plugin as its constructor leaves it.
InitIntegration ==
    /\ integrationState = "constructed"
    /\ localDataUrl = 0
    /\ objectUrls = { }
    /\ destroyCalls = 0
    /\ feed = NoFeed

\* The snippet adapter before it is called.
IdleAdapter ==
    /\ constantsFiles = << >>
    /\ walk = [ status |-> "idle" ]
    /\ adapter = [ status |-> "idle" ]
    /\ resolve = [ status |-> "idle" ]

-----------------------------------------------------------------------------
(* The initial state: the plugin as its constructor leaves it, init() called *)
(* and waiting for the database.                                             *)

InitPlugin ==
    /\ loads = [ g \in GroupIndexes |-> [status |-> "pending"] ]
    /\ initState = "loading"
    /\ emojis = << >>
    /\ emojiGroups = << >>
    /\ selectedSkinTone = 0
    /\ searchQuery = NullQuery
    /\ emojiPickerView = 0
    /\ panels = << >>
    /\ balloon = << >>
    /\ doc = << >>
    /\ unhandledRejection = FALSE
    /\ exception = FALSE
    /\ lastExec = [ panel |-> 0, name |-> "", emoji |-> "", displayed |-> FALSE,
                    tone |-> 0, effects |-> << >>, closed |-> FALSE ]
    /\ events = 0

Init == dbGroups = DefaultDb /\ InitPlugin /\ InitIntegration /\ IdleAdapter

-----------------------------------------------------------------------------
(* init(): the nine (here two) group loads of the Promise.all. *)

AllResolved(l) == \A g \in GroupIndexes : l[g].status = "resolved"

\* getEmojiByGroup resolves for group g: _getEmojiGroup registers the group's
\* emoji and resolves; with the last group the Promise.all resolves and init()
\* stores the groups.
GroupResolve(g) ==
    /\ loads[g].status = "pending"
    /\ LET databaseGroup == dbGroups[GroupDefs[g].databaseId]
           resolved == [ loads EXCEPT ![g] =
                           [ status |-> "resolved",
                             value |-> EmojiGroup(GroupDefs[g], databaseGroup) ] ]
       IN  /\ emojis' = RegisterEmojis(emojis, databaseGroup)
           /\ loads' = resolved
           /\ IF AllResolved(resolved)
              THEN /\ emojiGroups' = [ h \in GroupIndexes |-> resolved[h].value ]
                   /\ initState' = "ready"
              ELSE UNCHANGED << emojiGroups, initState >>
    /\ UNCHANGED << events, dbGroups, selectedSkinTone, searchQuery, emojiPickerView, panels,
                    balloon, doc, unhandledRejection, exception, lastExec >>
    /\ UNCHANGED << integrationVars, adapterVars >>

\* getEmojiByGroup rejects for group g: _getEmojiGroup rejects, so the
\* Promise.all and with it init() reject; nothing catches it.
GroupReject(g) ==
    /\ loads[g].status = "pending"
    /\ loads' = [ loads EXCEPT ![g] = [status |-> "rejected"] ]
    /\ initState' = "failed"
    /\ UNCHANGED << events, dbGroups, emojis, emojiGroups, selectedSkinTone, searchQuery,
                    emojiPickerView, panels, balloon, doc, unhandledRejection,
                    exception, lastExec >>
    /\ UNCHANGED << integrationVars, adapterVars >>

-----------------------------------------------------------------------------
(* showUI and the handlers of the panel's views.  The editor is created, and *)
(* its UI usable, only once init() resolved.  The user acts on the visible   *)
(* view of the balloon.                                                      *)

\* One more user event keeps the model's bound.
MayHandle == events < MaxEvents

\* showUI( searchValue ): searchValue is undefined (NullQuery) or a string.
\* The new view is added to the balloon on top of the views it holds.  The
\* focus of the view and searchView.setSearchQuery, which fills the search
\* field, change nothing the model holds.
ShowUI(searchValue) ==
    /\ initState = "ready"
    /\ MayHandle
    /\ events' = events + 1
    /\ LET query == IF ~searchValue.null /\ Len(searchValue.value) > 0
                    THEN searchValue ELSE searchQuery
           panel == UpdateGrid(NewPanel(selectedSkinTone, emojiGroups), "create",
                               query, selectedSkinTone, emojiGroups)
       IN  /\ searchQuery' = query
           /\ panels' = Append(panels, panel)
           /\ emojiPickerView' = Len(panels) + 1
           /\ balloon' = Append(balloon, Len(panels) + 1)
    /\ UNCHANGED << dbGroups, loads, initState, emojis, emojiGroups, selectedSkinTone,
                    doc, unhandledRejection, exception, lastExec >>
    /\ UNCHANGED << integrationVars, adapterVars >>

\* Mutant of SearchInput: the handler also puts the categories view back on the
\* first group.
SearchInputResetsCategory(text) ==
    /\ VisibleView # 0
    /\ MayHandle
    /\ events' = events + 1
    /\ searchQuery' = Str(text)
    /\ panels' = [ panels EXCEPT ![VisibleView] =
                     UpdateGrid([ @ EXCEPT !.currentCategoryName = emojiGroups[1].title ],
                                "input", Str(text), selectedSkinTone, emojiGroups) ]
    /\ UNCHANGED << dbGroups, loads, initState, emojis, emojiGroups, selectedSkinTone,
                    emojiPickerView, balloon, doc, unhandledRejection, exception,
                    lastExec >>
    /\ UNCHANGED << integrationVars, adapterVars >>

\* The searchView 'input' handler, with data.value = text.
SearchInput(text) ==
    /\ VisibleView # 0
    /\ MayHandle
    /\ events' = events + 1
    /\ searchQuery' = Str(text)
    /\ panels' = [ panels EXCEPT ![VisibleView] =
                     UpdateGrid(@, "input", Str(text), selectedSkinTone, emojiGroups) ]
    /\ UNCHANGED << dbGroups, loads, initState, emojis, emojiGroups, selectedSkinTone,
                    emojiPickerView, balloon, doc, unhandledRejection, exception,
                    lastExec >>
    /\ UNCHANGED << integrationVars, adapterVars >>

\* The categoriesView 'change:currentCategoryName' handler: the user chose
\* another category (the categories are enabled).
CategoryChange(name) ==
    /\ VisibleView # 0
    /\ MayHandle
    /\ events' = events + 1
    /\ panels[VisibleView].categoriesEnabled
    /\ name # panels[VisibleView].currentCategoryName
    /\ panels' = [ panels EXCEPT ![VisibleView] =
                     UpdateGrid([ @ EXCEPT !.currentCategoryName = name ], "category",
                                searchQuery, selectedSkinTone, emojiGroups) ]
    /\ UNCHANGED << dbGroups, loads, initState, emojis, emojiGroups, selectedSkinTone,
                    searchQuery, emojiPickerView, balloon, doc, unhandledRejection,
                    exception, lastExec >>
    /\ UNCHANGED << integrationVars, adapterVars >>

\* The toneView 'change:selectedSkinTone' handler: the user chose another tone.
ToneChange(newValue) ==
    /\ VisibleView # 0
    /\ MayHandle
    /\ events' = events + 1
    /\ newValue # panels[VisibleView].tone
    /\ selectedSkinTone' = newValue
    /\ panels' = [ panels EXCEPT ![VisibleView] =
                     UpdateGrid([ @ EXCEPT !.tone = newValue ], "tone",
                                searchQuery, newValue, emojiGroups) ]
    /\ UNCHANGED << dbGroups, loads, initState, emojis, emojiGroups, searchQuery,
                    emojiPickerView, balloon, doc, unhandledRejection, exception,
                    lastExec >>
    /\ UNCHANGED << integrationVars, adapterVars >>

\* getEmojiBySearchQuery resolves for call i of panel p: _updateGrid resumes.
QueryResolve(p, i) ==
    /\ i \in Pending(panels[p].calls)
    /\ panels' = [ panels EXCEPT ![p] =
                     ResumeGrid(@, i, SearchResult(panels[p].calls[i].query.value),
                                selectedSkinTone, emojis) ]
    /\ UNCHANGED << events, dbGroups, loads, initState, emojis, emojiGroups, selectedSkinTone,
                    searchQuery, emojiPickerView, balloon, doc, unhandledRejection,
                    exception, lastExec >>
    /\ UNCHANGED << integrationVars, adapterVars >>

\* getEmojiBySearchQuery rejects for call i of panel p: the promise of
\* _updateGrid rejects; no caller handles a rejection.
QueryReject(p, i) ==
    /\ i \in Pending(panels[p].calls)
    /\ panels' = [ panels EXCEPT ![p].calls[i].status = "rejected" ]
    /\ unhandledRejection' = TRUE
    /\ UNCHANGED << events, dbGroups, loads, initState, emojis, emojiGroups, selectedSkinTone,
                    searchQuery, emojiPickerView, balloon, doc, exception, lastExec >>
    /\ UNCHANGED << integrationVars, adapterVars >>

\* _hideUI throws before it clears the search text: the balloon is asked to
\* remove a view it does not have.
HideThrows == emojiPickerView # 0 /\ ~InBalloon(emojiPickerView)

\* _hideUI: the view created last is removed from the balloon and the search
\* text cleared.
HideUI ==
    IF HideThrows
    THEN /\ exception' = TRUE
         /\ UNCHANGED << balloon, searchQuery >>
    ELSE /\ balloon' = IF emojiPickerView # 0
                       THEN BalloonRemove(balloon, emojiPickerView) ELSE balloon
         /\ searchQuery' = Str(<< >>)
         /\ UNCHANGED exception

\* Tiles no grid shows: a name the catalog does not have, and a name it has.
StrayTiles == { CreateTile("X", "ghost"), CreateTile("H", "hand") }

Displayed(p, data) == \E i \in 1 .. Len(panels[p].tiles) : panels[p].tiles[i] = data

\* What an 'execute' event may carry: a tile of the visible grid, or a tile no
\* grid shows.
ExecuteData ==
    StrayTiles \cup
    (IF VisibleView = 0 THEN { }
     ELSE { panels[VisibleView].tiles[i] : i \in 1 .. Len(panels[VisibleView].tiles) })

\* The gridView 'execute' handler of showUI, with data = { name, emoji }.
Execute(data) ==
    /\ VisibleView # 0
    /\ MayHandle
    /\ events' = events + 1
    /\ doc' = Append(doc, data.emoji)
    /\ HideUI
    /\ lastExec' = [ panel |-> VisibleView,
                     name |-> data.name,
                     emoji |-> data.emoji,
                     displayed |-> Displayed(VisibleView, data),
                     tone |-> selectedSkinTone,
                     effects |-> << "insertText" >> \o
                                 (IF HideThrows THEN << "throw" >>
                                  ELSE IF emojiPickerView # 0 THEN << "remove" >>
                                  ELSE << >>),
                     closed |-> \A i \in 1 .. Len(balloon') : balloon'[i] # VisibleView ]
    /\ UNCHANGED << dbGroups, loads, initState, emojis, emojiGroups, selectedSkinTone,
                    emojiPickerView, panels, unhandledRejection >>
    /\ UNCHANGED << integrationVars, adapterVars >>

\* The callback of clickOutsideHandler: a click outside the balloon while the
\* view created last is the visible one.
ClickOutside ==
    /\ VisibleView # 0
    /\ VisibleView = emojiPickerView
    /\ MayHandle
    /\ events' = events + 1
    /\ HideUI
    /\ UNCHANGED << dbGroups, loads, initState, emojis, emojiGroups, selectedSkinTone,
                    emojiPickerView, panels, doc, unhandledRejection, lastExec >>
    /\ UNCHANGED << integrationVars, adapterVars >>

-----------------------------------------------------------------------------
(* The specifications. *)

Next ==
    \/ \E g \in GroupIndexes : GroupResolve(g)
    \/ \E g \in GroupIndexes : GroupReject(g)
    \/ \E text \in ShowTexts : ShowUI(Str(text))
    \/ ShowUI(NullQuery)
    \/ \E text \in SearchTexts : SearchInput(text)
    \/ \E name \in Titles : CategoryChange(name)
    \/ \E tone \in 0 .. MaxTone : ToneChange(tone)
    \/ \E p \in 1 .. Len(panels) : \E i \in 1 .. Len(panels[p].calls) : QueryResolve(p, i)
    \/ \E p \in 1 .. Len(panels) : \E i \in 1 .. Len(panels[p].calls) : QueryReject(p, i)
    \/ \E data \in ExecuteData : Execute(data)
    \/ ClickOutside

Spec == Init /\ [][Next]_vars

\* The group loads alone, over the databases of LoadDbs.
InitLoad == dbGroups \in LoadDbs /\ InitPlugin /\ InitIntegration /\ IdleAdapter

NextLoad ==
    \/ \E g \in GroupIndexes : GroupResolve(g)
    \/ \E g \in GroupIndexes : GroupReject(g)

SpecLoad == InitLoad /\ [][NextLoad]_vars

-----------------------------------------------------------------------------
(* What the claims speak of. *)

PanelIds == 1 .. Len(panels)

\* The names of a tile list, in order.
TileNames(tiles) == [ i \in 1 .. Len(tiles) |-> tiles[i].name ]

\* The names of the current category's items of a panel, in the group's order.
CategoryNames(panel) ==
    LET group == CHOOSE g \in 1 .. Len(emojiGroups) :
                    emojiGroups[g].title = panel.currentCategoryName
    IN  [ i \in 1 .. Len(emojiGroups[group].items) |-> emojiGroups[group].items[i].name ]

\* A queried emoji the catalog resolves: it has an annotation, and the
\* annotation is a name of the catalog.
Resolvable(queriedEmoji) ==
    /\ "annotation" \in DOMAIN queriedEmoji
    /\ queriedEmoji.annotation \in DOMAIN emojis

\* The names of the resolvable emoji of a search result, in the result's order.
ResultNames(text) ==
    LET kept == SelectSeq(SearchResult(text), Resolvable)
    IN  [ i \in 1 .. Len(kept) |-> kept[i].annotation ]

\* Every call of the panel's record has completed, none by a rejection, and the
\* last one read the search text the plugin holds now.
Settled(panel) ==
    /\ panel.calls # << >>
    /\ \A i \in 1 .. Len(panel.calls) : panel.calls[i].status \in { "sync", "resolved" }
    /\ panel.calls[Len(panel.calls)].query = searchQuery

\* C1: when two different search texts of length >= 2 were entered one after the other,
\* the second while the query of the first was in flight, and both queries have
\* resolved, the tiles are those of the second query's result and no other.
C1_LastRequesterWins ==
    \A p \in PanelIds :
        LET c == panels[p].calls
        IN  ( /\ Len(c) = 2
              /\ c[1].query # c[2].query
              /\ \A i \in 1 .. 2 : /\ c[i].trigger = "input"
                                   /\ ~CategoryMode(c[i].query)
                                   /\ c[i].status = "resolved" )
            => TileNames(panels[p].tiles) = ResultNames(c[2].query.value)

\* C2: when the search text is shorter than 2 and no call of _updateGrid is in
\* flight on the visible panel, whose last call read that search text, the
\* tiles are the items of the panel's current category.
C2_ShortSearchShowsCategory ==
    \A p \in PanelIds :
        ( /\ p = VisibleView
          /\ CategoryMode(searchQuery)
          /\ Settled(panels[p]) )
        => TileNames(panels[p].tiles) = CategoryNames(panels[p])

\* The tile lists one recomputation can produce: a category at a tone, or the
\* result of a search at a tone.
OneRecomputation ==
    { AddTilesToGrid(<< >>, GetEmojisForCategory(emojiGroups, title), tone) :
        title \in Titles, tone \in 0 .. MaxTone } \cup
    { AddTilesToGrid(<< >>, TilesToAdd(emojis, SearchResult(text)), tone) :
        text \in SearchTexts, tone \in 0 .. MaxTone }

\* C3: the tile list of a panel is empty or the tile list one single
\* recomputation produced.
C3_GridFullyReplaced ==
    \A p \in PanelIds :
        panels[p].tiles = << >> \/ panels[p].tiles \in OneRecomputation

\* C4: after search text changes on a panel, once every query has resolved, the
\* categories are disabled exactly when the search text has length >= 2.
C4_CategoriesDisabledIffSearching ==
    \A p \in PanelIds :
        ( /\ Settled(panels[p])
          /\ \A i \in 1 .. Len(panels[p].calls) : panels[p].calls[i].trigger = "input" )
        => (~panels[p].categoriesEnabled <=> ~CategoryMode(searchQuery))

\* C5: a failure of the database is zero results: init() does not fail, no
\* rejection is left unhandled, and the grid of a panel whose only call was
\* rejected is empty.
C5_DatabaseFailureIsNoResult ==
    /\ initState # "failed"
    /\ ~unhandledRejection
    /\ \A p \in PanelIds :
          (Len(panels[p].calls) = 1 /\ panels[p].calls[1].status = "rejected")
          => panels[p].tiles = << >>

\* The 'execute' handler has run.
Executed == lastExec.panel # 0

\* C6: the 'execute' handler, run for a tile the visible grid does not show
\* (its name in the catalog or not), inserts nothing and throws nothing.
C6_StrayActivationIsNoOp ==
    (Executed /\ ~lastExec.displayed) => lastExec.effects = << >>

\* C7: the 'execute' handler, run for a tile the visible grid shows, inserts
\* the emoji once, the emoji being the variant of the tile's record at the
\* selected tone or else its base glyph, then removes the picker view from the
\* balloon, and the panel of the tile is no longer in the balloon.
C7_ActivationInsertsAndCloses ==
    (Executed /\ lastExec.displayed)
    => /\ lastExec.effects = << "insertText", "remove" >>
       /\ doc # << >> /\ doc[Len(doc)] = lastExec.emoji
       /\ lastExec.emoji = Glyph(emojis[lastExec.name], lastExec.tone)
       /\ lastExec.closed

\* The items of the database's groups.
DbItems ==
    UNION { { dbGroups[id][i] : i \in 1 .. Len(dbGroups[id]) } : id \in DOMAIN dbGroups }

DbItem(name) == CHOOSE item \in DbItems : item.annotation = name

\* The emoji has a skin of tone k.
HasRank(item, k) ==
    /\ "skins" \in DOMAIN item
    /\ \E s \in 1 .. Len(item.skins) : item.skins[s].tone = k

RankGlyph(item, k) ==
    item.skins[CHOOSE s \in 1 .. Len(item.skins) : item.skins[s].tone = k].unicode

\* C8: a tile rendered at tone k shows the skin of tone k of its emoji when the
\* emoji has one, and the emoji's base glyph otherwise.
C8_ToneResolution ==
    \A p \in PanelIds :
        \A i \in 1 .. Len(panels[p].tiles) :
            LET item == DbItem(panels[p].tiles[i].name)
                k == panels[p].toneOf[i]
            IN  panels[p].tiles[i].emoji =
                    IF k # 0 /\ HasRank(item, k) THEN RankGlyph(item, k) ELSE item.unicode

\* A grid rendered at a tone above 0 that one of its emoji has and another lacks.
C8_Witness ==
    \E p \in PanelIds :
        \E i, j \in 1 .. Len(panels[p].tiles) :
            /\ panels[p].toneOf[i] > 0
            /\ panels[p].toneOf[j] = panels[p].toneOf[i]
            /\ HasRank(DbItem(panels[p].tiles[i].name), panels[p].toneOf[i])
            /\ ~HasRank(DbItem(panels[p].tiles[j].name), panels[p].toneOf[j])
            /\ panels[p].tiles[j].emoji = DbItem(panels[p].tiles[j].name).unicode

\* The tone of the skin of the emoji that has this glyph.
ToneOfGlyph(item, unicode) ==
    item.skins[CHOOSE s \in 1 .. Len(item.skins) : item.skins[s].unicode = unicode].tone

\* C9: every record of a loaded group has the base glyph first and then the
\* glyphs of all its skins in ascending order of tone, and the catalog holds
\* the same list under the record's name.
C9_VariantsSortedByTone ==
    \A g \in GroupIndexes :
        loads[g].status = "resolved" =>
            LET databaseGroup == dbGroups[GroupDefs[g].databaseId]
                items == loads[g].value.items
            IN  /\ Len(items) = Len(databaseGroup)
                /\ \A i \in 1 .. Len(items) :
                      LET item == databaseGroup[i]
                          variants == items[i].emojis
                          skins == IF "skins" \in DOMAIN item THEN item.skins ELSE << >>
                      IN  /\ items[i].name = item.annotation
                          /\ variants[1] = item.unicode
                          /\ Len(variants) = 1 + Len(skins)
                          /\ { variants[a] : a \in 2 .. Len(variants) } =
                             { skins[k].unicode : k \in 1 .. Len(skins) }
                          /\ \A a, b \in 2 .. Len(variants) :
                                a < b => ToneOfGlyph(item, variants[a]) <
                                         ToneOfGlyph(item, variants[b])
                          /\ emojis[items[i].name] = variants

\* Both groups are loaded, one with an emoji whose skins the database holds out
\* of order, one with an emoji without skins.
C9_Witness ==
    /\ \A g \in GroupIndexes : loads[g].status = "resolved"
    /\ \E item \in DbItems :
          /\ "skins" \in DOMAIN item
          /\ \E a, b \in 1 .. Len(item.skins) : a < b /\ item.skins[a].tone > item.skins[b].tone
    /\ \E item \in DbItems : "skins" \notin DOMAIN item
    /\ \E name \in DOMAIN emojis : Len(emojis[name]) >= 3

\* The glyphs of a list of variants.
Glyphs(variants) == { variants[k] : k \in 1 .. Len(variants) }

\* C10: when the query of a call of _updateGrid resolves, the tiles the call
\* adds are the resolvable emoji of the result, in the result's order, each
\* with a glyph of its catalog record; the other emoji of the result add no
\* tile and throw nothing.
C10_SearchTilesFollowResult ==
    [][ \A p \in PanelIds :
          \A i \in Pending(panels[p].calls) :
              panels'[p].calls[i].status = "resolved" =>
                  LET old == panels[p].tiles
                      new == panels'[p].tiles
                  IN  /\ TileNames(new) =
                             TileNames(old) \o ResultNames(panels[p].calls[i].query.value)
                      /\ SubSeq(new, 1, Len(old)) = old
                      /\ \A k \in Len(old) + 1 .. Len(new) :
                            new[k].emoji \in Glyphs(emojis[new[k].name])
                      /\ exception' = exception
      ]_vars

\* A panel whose one call resolved with a result that holds emoji the catalog
\* does not resolve, before and after an emoji it resolves.
C10_Witness ==
    \E p \in PanelIds :
        /\ Len(panels[p].calls) = 1
        /\ panels[p].calls[1].status = "resolved"
        /\ LET result == SearchResult(panels[p].calls[1].query.value)
           IN  /\ \E a, b, c \in 1 .. Len(result) :
                     /\ a < b /\ b < c
                     /\ Resolvable(result[a]) /\ ~Resolvable(result[b])
                     /\ Resolvable(result[c])
               /\ Len(panels[p].tiles) = 2
               /\ Len(panels[p].tiles) < Len(result)


-----------------------------------------------------------------------------
(* Tone and category changes while a search text is set. *)

LastCall(panel) == panel.calls[Len(panel.calls)]

\* This step is the tone or the category handler acting on panel p.
ChangeHandled(p) ==
    /\ events' # events
    /\ panels'[p] # panels[p]
    /\ LastCall(panels'[p]).trigger \in { "tone", "category" }

\* This step is the search 'input' handler acting on panel p.
InputHandled(p) ==
    /\ events' # events
    /\ p = VisibleView
    /\ Len(panels') = Len(panels)
    /\ LastCall(panels'[p]).trigger = "input"
    /\ searchQuery' = LastCall(panels'[p]).query
    /\ balloon' = balloon /\ doc' = doc

\* C11: a tone or a category change handled while the search text has length
\* >= 2 is stored and leaves the tiles of the panel as they are.
C11_ChangeNotAppliedWhileSearching ==
    [][ \A p \in PanelIds :
          (~CategoryMode(searchQuery) /\ ChangeHandled(p))
          => panels'[p].tiles = panels[p].tiles
      ]_vars

\* C12: no call of _updateGrid made by the tone or the category handler waits
\* for the database: each has returned with the tile list complete.
C12_ChangeIsSynchronous ==
    \A p \in PanelIds :
        \A i \in 1 .. Len(panels[p].calls) :
            panels[p].calls[i].trigger \in { "tone", "category" }
            => panels[p].calls[i].status = "sync"

\* C14: only the tone and the category handlers change the selected tone, the
\* tone of a panel's tone view or a panel's current category; and the 'input'
\* handler, when it sets a search text shorter than 2, leaves the panel with the
\* tiles of the category that was current at the tone that was selected.
C14_SearchKeepsCategoryAndTone ==
    [][ /\ \A p \in PanelIds :
              ( \/ panels'[p].currentCategoryName # panels[p].currentCategoryName
                \/ panels'[p].tone # panels[p].tone ) => ChangeHandled(p)
        /\ selectedSkinTone' # selectedSkinTone => \E p \in PanelIds : ChangeHandled(p)
        /\ \A p \in PanelIds :
              (InputHandled(p) /\ CategoryMode(searchQuery'))
              => panels'[p].tiles =
                     AddTilesToGrid(<< >>,
                         GetEmojisForCategory(emojiGroups, panels[p].currentCategoryName),
                         selectedSkinTone)
      ]_vars

\* A search of length >= 2 resolved on a panel and the search text was then
\* set to '': the tiles are those of the panel's category at the selected
\* tone.
C14_Witness ==
    \E p \in PanelIds :
        LET c == panels[p].calls
        IN  /\ Len(c) >= 2
            /\ LastCall(panels[p]) = Call("input", Str(<< >>), "sync")
            /\ \E i \in 1 .. Len(c) - 1 :
                  /\ c[i].trigger = "input" /\ c[i].status = "resolved"
                  /\ ~CategoryMode(c[i].query)
            /\ searchQuery = Str(<< >>)
            /\ panels[p].tiles =
                   AddTilesToGrid(<< >>,
                       GetEmojisForCategory(emojiGroups, panels[p].currentCategoryName),
                       selectedSkinTone)

-----------------------------------------------------------------------------
(* EmojiLibraryIntegration: init(), getQueryEmojiFn and the feed function,   *)
(* and the teardown of the plugin.                                           *)

\* init(): URL.createObjectURL makes a new object URL of the emoji data.
IntegrationInit ==
    /\ integrationState = "constructed"
    /\ integrationState' = "initialized"
    /\ LET url == Cardinality(objectUrls) + 1
       IN  /\ localDataUrl' = url
           /\ objectUrls' = objectUrls \cup { url }
    /\ UNCHANGED << destroyCalls, feed, pickerVars, adapterVars >>

\* destroy(): the class defines none, so this is the one it inherits from
\* Plugin, which stops the plugin's listeners.  Nothing of the class calls
\* URL.revokeObjectURL.
IntegrationDestroy ==
    /\ integrationState \in { "initialized", "destroyed" }
    /\ destroyCalls < MaxDestroys
    /\ destroyCalls' = destroyCalls + 1
    /\ integrationState' = "destroyed"
    /\ UNCHANGED << localDataUrl, objectUrls, feed, pickerVars, adapterVars >>

\* getQueryEmojiFn( queryLimit ): the database is made over the object URL and
\* the feed function returned.
GetQueryEmojiFn(queryLimit) ==
    /\ integrationState = "initialized"
    /\ feed.status = "none"
    /\ feed' = [ NoFeed EXCEPT !.status = "ready", !.queryLimit = queryLimit ]
    /\ UNCHANGED << integrationState, localDataUrl, objectUrls, destroyCalls,
                    pickerVars, adapterVars >>

\* The feed function is called with a search query, for which the database
\* will find queryResult: it awaits getEmojiBySearchQuery.
FeedQuery(queryResult) ==
    /\ feed.status \in { "ready", "resolved", "rejected" }
    /\ feed' = [ feed EXCEPT !.status = "pending", !.queryResult = queryResult,
                             !.items = << >> ]
    /\ UNCHANGED << integrationState, localDataUrl, objectUrls, destroyCalls,
                    pickerVars, adapterVars >>

\* getEmojiBySearchQuery resolves: the feed function returns its list.
FeedResolve ==
    /\ feed.status = "pending"
    /\ feed' = [ feed EXCEPT !.status = "resolved",
                             !.items = QueryEmojiFn(feed.queryLimit, feed.queryResult) ]
    /\ UNCHANGED << integrationState, localDataUrl, objectUrls, destroyCalls,
                    pickerVars, adapterVars >>

\* getEmojiBySearchQuery rejects: so does the promise of the feed function.
FeedReject ==
    /\ feed.status = "pending"
    /\ feed' = [ feed EXCEPT !.status = "rejected" ]
    /\ UNCHANGED << integrationState, localDataUrl, objectUrls, destroyCalls,
                    pickerVars, adapterVars >>

InitIntegrationSpec ==
    dbGroups = DefaultDb /\ InitPlugin /\ InitIntegration /\ IdleAdapter

NextIntegration ==
    \/ IntegrationInit
    \/ IntegrationDestroy
    \/ \E queryLimit \in 0 .. MaxQueryLimit : GetQueryEmojiFn(queryLimit)
    \/ \E queryResult \in QueryResults : FeedQuery(queryResult)
    \/ FeedResolve
    \/ FeedReject

SpecIntegration == InitIntegrationSpec /\ [][NextIntegration]_vars

\* C13: once the plugin is torn down the object URL made by init() is revoked:
\* the browser holds it no longer, after the first destroy() and after a second.
C13_HandleReleasedOnTeardown ==
    integrationState = "destroyed" => localDataUrl \notin objectUrls

Min(a, b) == IF a <= b THEN a ELSE b

\* C19: the list the feed function returns for a query with n results is the
\* first min(n, queryLimit - 1) results in the database's order, each as its
\* { id, text }, then the 'show all emoji' item and nothing more; with
\* queryLimit >= 1 the list has at most queryLimit items.
C19_FeedIsLimitedAndEndsWithShowAll ==
    feed.status = "resolved" =>
        LET n == Len(feed.queryResult)
            m == Min(n, feed.queryLimit - 1)
            items == feed.items
        IN  /\ Len(items) = (IF m > 0 THEN m ELSE 0) + 1
            /\ \A i \in 1 .. Len(items) - 1 :
                  /\ DOMAIN items[i] = { "id", "text" }
                  /\ items[i].text = feed.queryResult[i].unicode
                  /\ items[i].id = FeedItem(feed.queryResult[i]).id
            /\ items[Len(items)] = [id |-> ShowAllEmojiId]
            /\ feed.queryLimit >= 1 => Len(items) <= feed.queryLimit

\* The database found more emoji than the limit lets through: the first one is
\* kept, its id rewritten, and the 'show all emoji' item follows it.
C19_Witness ==
    /\ feed.status = "resolved"
    /\ feed.queryLimit = 2
    /\ Len(feed.queryResult) = 3
    /\ Len(feed.items) = 2
    /\ feed.items[1].id = << ":", "f", "_", "u", ":" >>
    /\ feed.items[2] = [id |-> ShowAllEmojiId]

-----------------------------------------------------------------------------
(* snippetadapter.mjs, getConstantDefinitions.  A path is the sequence of    *)
(* its segments: << >> is the root '/', << "a", "b" >> is '/a/b'.  A value   *)
(* of a constant is the JSON text of it.                                     *)

\* upath.dirname( path ) of an absolute path: the path without its last
\* segment, and the root for the root.
Dirname(path) ==
    IF path = << >> THEN << >> ELSE SubSeq(path, 1, Len(path) - 1)

\* The documentation pages of the model, by their directory, and the snippet
\* that has no page (pageSourcePath is '').
PageDirs == { << "a", "b" >>, << "a" >>, << "c" >> }
NoPage == [ pageSourcePath |-> << >>, hasPage |-> FALSE ]
Page(dir) == [ pageSourcePath |-> dir \o << "page.md" >>, hasPage |-> TRUE ]

SnippetSets ==
    UNION { [ 1 .. n -> { NoPage } \cup { Page(dir) : dir \in PageDirs } ] :
              n \in 0 .. MaxSnippets }

\* Constants files: the definitions of each, in the order of the object's keys.
\* "0" and the empty string are falsy values.
ConstX0 == << [name |-> "X", value |-> "0"] >>
ConstX1 == << [name |-> "X", value |-> "1"] >>
ConstYX == << [name |-> "Y", value |-> "\"\""], [name |-> "X", value |-> "2"] >>
ConstY == << [name |-> "Y", value |-> "\"k\""] >>

\* What glob finds in the docs directory of one directory.
GlobResults == { << >>, << ConstX0 >>, << ConstX1 >>, << ConstYX >>, << ConstX1, ConstY >> }

\* The directories whose docs directory may hold constants files.
ConstantsDirs == { << >>, << "a" >>, << "a", "b" >> }

Disks == [ ConstantsDirs -> GlobResults ]

\* glob( 'constants.*js', { cwd: directory/docs } )
Glob(disk, directory) ==
    IF directory \in DOMAIN disk THEN disk[directory] ELSE << >>

\* A value that `if ( value )` takes for false.
Falsy(value) == value \in { "0", "false", "\"\"", "null" }

\* The duplicate test on the presence of the constant instead of the truth of
\* its value: what the test would be for no constant to be overwritten.
DuplicatedStrict(definitions, constantName, constantValue) ==
    /\ constantName \in DOMAIN definitions
    /\ definitions[constantName] # constantValue

\* constantDefinitions[ constantName ] && constantDefinitions[ constantName ] !== constantValue
Duplicated(definitions, constantName, constantValue) ==
    /\ constantName \in DOMAIN definitions
    /\ ~Falsy(definitions[constantName])
    /\ definitions[constantName] # constantValue

\* object[ key ] = value
Put(object, key, value) ==
    [ k \in DOMAIN object \cup { key } |-> IF k = key THEN value ELSE object[k] ]

\* The for-in loop over the definitions of one constants file, from definition
\* i on: the definitions and origins after it, and whether it threw.  The
\* Object.assign that follows the loop assigns the same values again.
RECURSIVE MergeFile(_, _, _, _)
MergeFile(state, file, i, importPath) ==
    IF i > Len(file) THEN state
    ELSE IF Duplicated(state.constantDefinitions, file[i].name, file[i].value)
    THEN [ state EXCEPT !.thrown = TRUE,
                        !.error = [ constant |-> file[i].name,
                                    paths |-> << importPath,
                                                 state.constantOrigins[file[i].name] >> ] ]
    ELSE MergeFile([ state EXCEPT
                       !.constantDefinitions = Put(@, file[i].name, file[i].value),
                       !.constantOrigins = Put(@, file[i].name, importPath) ],
                   file, i + 1, importPath)

\* The loop over the constants files of one directory, from file k on.
RECURSIVE MergeFiles(_, _, _, _)
MergeFiles(state, files, k, directory) ==
    IF k > Len(files) \/ state.thrown THEN state
    ELSE MergeFiles(MergeFile(state, files[k], 1, << directory, k >>),
                    files, k + 1, directory)

\* Mutant of KnownAfterVisit: the directory is not remembered.
KnownAfterVisitOmitted(knownPaths, directory) == knownPaths

\* knownPaths.add( directory )
KnownAfterVisit(knownPaths, directory) == knownPaths \cup { directory }

\* The count of the searches of a directory, as far as the model counts.
Searched(searches, directory) ==
    [ d \in DOMAIN searches \cup { directory } |->
        IF d = directory
        THEN (IF d \in DOMAIN searches /\ searches[d] >= 1 THEN 2 ELSE 1)
        ELSE searches[d] ]

\* getConstantDefinitions( snippets ) as it starts.
StartWalk(snippets) ==
    [ status |-> "running",
      snippets |-> snippets,
      next |-> 1,
      inWhile |-> FALSE,
      directory |-> << >>,
      knownPaths |-> { },
      constantDefinitions |-> << >>,
      constantOrigins |-> << >>,
      thrown |-> FALSE,
      error |-> << >>,
      searches |-> << >> ]

WalkUnchanged ==
    UNCHANGED << constantsFiles, adapter, resolve, pickerVars, integrationVars >>

\* The for loop takes the next snippet: one without a page is skipped, for
\* another the walk starts at the directory of the page.
WalkNextSnippet ==
    /\ walk.status = "running" /\ ~walk.inWhile
    /\ walk.next <= Len(walk.snippets)
    /\ LET snippet == walk.snippets[walk.next]
       IN  walk' = IF ~snippet.hasPage
                   THEN [ walk EXCEPT !.next = @ + 1 ]
                   ELSE [ walk EXCEPT !.next = @ + 1,
                                      !.inWhile = TRUE,
                                      !.directory = Dirname(snippet.pageSourcePath) ]
    /\ WalkUnchanged

\* One turn of the while loop: the directory is new, it is remembered, its
\* constants files are found and imported and their definitions merged, and
\* the walk moves to the parent directory; or a definition is duplicated and
\* the function throws.
WalkVisit ==
    /\ walk.status = "running" /\ walk.inWhile
    /\ walk.directory \notin walk.knownPaths
    /\ LET visited == [ walk EXCEPT
                          !.knownPaths = KnownAfterVisit(@, walk.directory),
                          !.searches = Searched(@, walk.directory) ]
           merged == MergeFiles(visited, Glob(constantsFiles, walk.directory), 1,
                                walk.directory)
       IN  walk' = IF merged.thrown
                   THEN [ merged EXCEPT !.status = "thrown" ]
                   ELSE [ merged EXCEPT !.directory = Dirname(walk.directory) ]
    /\ WalkUnchanged

\* The while loop ends: the directory is a known one.
WalkLeave ==
    /\ walk.status = "running" /\ walk.inWhile
    /\ walk.directory \in walk.knownPaths
    /\ walk' = [ walk EXCEPT !.inWhile = FALSE ]
    /\ WalkUnchanged

\* The for loop is over: the definitions are returned.
WalkReturn ==
    /\ walk.status = "running" /\ ~walk.inWhile
    /\ walk.next > Len(walk.snippets)
    /\ walk' = [ walk EXCEPT !.status = "returned" ]
    /\ WalkUnchanged

InitWalk ==
    /\ dbGroups = DefaultDb /\ InitPlugin /\ InitIntegration
    /\ constantsFiles \in Disks
    /\ walk \in { StartWalk(snippets) : snippets \in SnippetSets }
    /\ adapter = [ status |-> "idle" ]
    /\ resolve = [ status |-> "idle" ]

NextWalk ==
    \/ WalkNextSnippet
    \/ WalkVisit
    \/ WalkLeave
    \/ WalkReturn

SpecWalk == InitWalk /\ [][NextWalk]_vars

\* The function runs on: nothing but its own awaits holds it up.
SpecWalkFair == SpecWalk /\ WF_vars(NextWalk)

\* The constants files of the directories searched so far, and their
\* definitions.
SeenFiles ==
    UNION { { Glob(constantsFiles, d)[k] : k \in 1 .. Len(Glob(constantsFiles, d)) } :
            d \in walk.knownPaths }

SeenDefinitions == UNION { { file[i] : i \in 1 .. Len(file) } : file \in SeenFiles }

\* Two constants files that were reached define one constant with two values.
Conflict ==
    \E a, b \in SeenDefinitions : a.name = b.name /\ a.value # b.value

\* C17: when two constants files reached by the walk define a constant with
\* different values the function does not return (it throws the 'duplicated'
\* error for such a constant); otherwise it returns every definition reached.
C17_NoSilentOverwrite ==
    /\ (walk.status = "returned" => ~Conflict)
    /\ (walk.status = "thrown" =>
            /\ Conflict
            /\ \E a, b \in SeenDefinitions :
                  a.name = walk.error.constant /\ b.name = a.name /\ a.value # b.value)
    /\ (walk.status = "returned" /\ ~Conflict) =>
            /\ DOMAIN walk.constantDefinitions = { a.name : a \in SeenDefinitions }
            /\ \A a \in SeenDefinitions : walk.constantDefinitions[a.name] = a.value

\* The walk has ended.
WalkEnded == walk.status \in { "returned", "thrown" }

\* C18: the walk ends for every set of snippets; no directory is searched for
\* constants files twice; each turn of the loop climbs to the parent directory;
\* and the climb for a snippet stops at a directory that was visited before,
\* and only there.
C18_WalkTerminates ==
    /\ <>WalkEnded
    /\ [](\A d \in DOMAIN walk.searches : walk.searches[d] <= 1)
    /\ [][ /\ (walk.inWhile /\ walk'.inWhile /\ walk' # walk /\ walk'.status = "running")
              => /\ walk.directory \notin walk.knownPaths
                 /\ walk'.directory = Dirname(walk.directory)
                 /\ walk'.knownPaths = walk.knownPaths \cup { walk.directory }
           /\ (walk.inWhile /\ ~walk'.inWhile)
              => walk.directory \in walk.knownPaths
         ]_vars

\* Two snippets were walked: the climb of the first reached the root, the climb
\* of the second stopped at a directory the first had visited.
C18_Witness ==
    /\ walk.status = "returned"
    /\ Len(walk.snippets) = 2
    /\ walk.snippets[1].hasPage /\ walk.snippets[2].hasPage
    /\ Dirname(walk.snippets[1].pageSourcePath) # Dirname(walk.snippets[2].pageSourcePath)
    /\ << >> \in walk.knownPaths
    /\ Cardinality(walk.knownPaths) = 3
    /\ \A d \in walk.knownPaths : walk.searches[d] = 1

-----------------------------------------------------------------------------
(* snippetadapter.mjs, the import map and the 'external' plugin of a build.  *)
(* An import path is the sequence of its characters.  The names of the model *)
(* are short: "c" is 'ckeditor5', "cp" is 'ckeditor5-premium-features'       *)
(* (which begins with 'ckeditor5'), "k" is a dependency such as              *)
(* '@ckeditor/ckeditor5-core', "d" stands for 'dist/index.js' and "t" for    *)
(* 'tests'.                                                                  *)

Ckeditor5 == << "c" >>
PremiumFeatures == << "c", "p" >>
Dependency == << "k" >>
DistIndex == << "/", "d" >>

PathChars == { "c", "p", "k", "/", "d", "t" }

ImportPaths == UNION { [ 1 .. n -> PathChars ] : n \in 0 .. MaxPathLen }

\* The dependencies of the package.json of 'ckeditor5' and of
\* 'ckeditor5-premium-features': none, or the dependency.
DependencySets == { { }, { Dependency } }

\* imports[ key ] ||= value
OrAssign(imports, key, value) ==
    IF key \in DOMAIN imports THEN imports ELSE Put(imports, key, value)

\* One of the two for loops of getImportMap: the loop adds, for each
\* dependency, the dependency and its dist/index.js.
RECURSIVE AddDependencies(_, _, _)
AddDependencies(imports, dependencies, url) ==
    IF dependencies = { } THEN imports
    ELSE LET dependency == CHOOSE d \in dependencies : TRUE
         IN  AddDependencies(
                 OrAssign(OrAssign(imports, dependency, url),
                          dependency \o DistIndex, url),
                 dependencies \ { dependency }, url)

\* getImportMap(), given the dependencies of the two packages.
GetImportMap(coreDependencies, commercialDependencies) ==
    LET imports == (Ckeditor5 :> "ckeditor5.js") @@
                   ((Ckeditor5 \o << "/" >>) :> "ckeditor5/") @@
                   (PremiumFeatures :> "ckeditor5-premium-features.js") @@
                   ((PremiumFeatures \o << "/" >>) :> "ckeditor5-premium-features/")
    IN  AddDependencies(AddDependencies(imports, coreDependencies, imports[Ckeditor5]),
                        commercialDependencies, imports[PremiumFeatures])

\* name.endsWith( '/' )
EndsWithSlash(name) == name # << >> /\ name[Len(name)] = "/"

\* path.startsWith( name )
StartsWith(path, name) ==
    Len(name) <= Len(path) /\ SubSeq(path, 1, Len(name)) = name

\* Mutant of IsExternal: every name is matched as a prefix, as the external
\* option of the bundler does.
IsExternalByPrefix(externals, path) ==
    \E name \in externals : StartsWith(path, name)

\* externals.some( name => name.endsWith( '/' ) ? args.path.startsWith( name ) : args.path === name )
IsExternal(externals, path) ==
    \E name \in externals :
        IF EndsWithSlash(name) THEN StartsWith(path, name) ELSE path = name

\* The callback of build.onResolve answers for the path it was asked about.
OnResolve ==
    /\ resolve.status = "asked"
    /\ resolve' = [ resolve EXCEPT !.status = "answered",
                                   !.external = IsExternal(resolve.externals, resolve.path) ]
    /\ UNCHANGED << constantsFiles, walk, adapter, pickerVars, integrationVars >>

\* A build asks about an import path; the externals are the keys of the
\* import map, as buildSnippets passes them.
InitResolve ==
    /\ dbGroups = DefaultDb /\ InitPlugin /\ InitIntegration
    /\ constantsFiles = << >>
    /\ walk = [ status |-> "idle" ]
    /\ adapter = [ status |-> "idle" ]
    /\ resolve \in { [ status |-> "asked",
                       externals |-> DOMAIN GetImportMap(core, commercial),
                       path |-> path,
                       external |-> FALSE ] :
                     core \in DependencySets, commercial \in DependencySets,
                     path \in ImportPaths }

NextResolve == OnResolve

SpecResolve == InitResolve /\ [][NextResolve]_vars

\* The import-map keys that are matched whole, and those that are matched as a
\* prefix.
ExactKeys == { key \in resolve.externals : key[Len(key)] # "/" }
PrefixKeys == { key \in resolve.externals : key[Len(key)] = "/" }

\* The beginnings of the path, the path itself among them.
Prefixes(path) == { SubSeq(path, 1, n) : n \in 0 .. Len(path) }

\* C16: an import path is external exactly when it is a key that does not end
\* with '/' or begins with a key that ends with '/'; so a path that goes on
\* after a key without '/' (the tests directory of a package) and begins with
\* no key that ends with '/' is bundled.
C16_ExternalExactOrSlashPrefix ==
    resolve.status = "answered" =>
        /\ resolve.external <=>
              \/ resolve.path \in ExactKeys
              \/ Prefixes(resolve.path) \cap PrefixKeys # { }
        /\ ( /\ \E key \in ExactKeys :
                   key \in Prefixes(resolve.path) /\ key # resolve.path
             /\ resolve.path \notin ExactKeys
             /\ Prefixes(resolve.path) \cap PrefixKeys = { } )
           => ~resolve.external

\* The resolver was asked about the tests directory of a dependency whose name
\* is a key of the import map, and answered that it is to be bundled.
C16_Witness ==
    /\ resolve.status = "answered"
    /\ resolve.path = Dependency \o << "/", "t" >>
    /\ Dependency \in resolve.externals
    /\ ~resolve.external

-----------------------------------------------------------------------------
(* snippetadapter.mjs, snippetAdapter: the constants, the builds of the      *)
(* JavaScript snippets one after the other, then the documents.              *)

\* The snippets of the documentation: "s1" is used on a page of /a, "s2" on a
\* page of /a/b, each in document "d1" or "d2".
AdapterSnippet(name, destination) ==
    [ snippetName |-> name,
      destinationPath |-> destination,
      pageSourcePath |-> (IF name = "s1" THEN << "a" >> ELSE << "a", "b" >>) \o << "page.md" >>,
      hasPage |-> TRUE ]

AdapterSnippetSets ==
    UNION { [ 1 .. n -> { AdapterSnippet(name, destination) :
                            name \in { "s1", "s2" }, destination \in { "d1", "d2" } } ] :
              n \in 0 .. MaxSnippets }

\* getBootstrapDocumentData: the snippet and the document of the bootstrap
\* example.
BootstrapSnippet ==
    [ snippetName |-> "examples/bootstrap-ui",
      destinationPath |-> "examples/bootstrap-ui.html",
      pageSourcePath |-> << >>,
      hasPage |-> FALSE ]

\* The disks the adapter is run on: no constants file, one, and two that
\* define one constant differently.
NoConstants == [ d \in ConstantsDirs |-> << >> ]
AdapterDisks ==
    { NoConstants,
      [ NoConstants EXCEPT ![<< >>] = << ConstX1 >> ],
      [ NoConstants EXCEPT ![<< >>] = << ConstYX >>, ![<< "a" >>] = << ConstX1 >> ] }

\* The files of a snippet in the snippets input directory, by extension.
SourceKinds == { { "html" }, { "html", "js" }, { "html", "js", "css" } }

SourceTrees ==
    { ("examples/bootstrap-ui" :> { "html", "js" }) @@ ("s1" :> k1) @@ ("s2" :> k2) :
        k1 \in SourceKinds, k2 \in SourceKinds }

\* The orders in which the recursive readdir lists the snippets, each at its
\* first file: the files of the input directory itself in the order of the
\* file system, then those of its subdirectory examples.
SourceOrders ==
    { << "s1", "s2", "examples/bootstrap-ui" >>, << "s2", "s1", "examples/bootstrap-ui" >> }

\* Output files an earlier run of the adapter left behind.
StaleOutputs == { { }, { << "s1", "snippet.js" >> } }

\* The files a build of the snippet writes: snippet.js, and snippet.css when
\* the snippet has a CSS file, which the entry point then imports.
BuildOutputs(name, kinds) ==
    { << name, "snippet.js" >> } \cup
    (IF "css" \in kinds THEN { << name, "snippet.css" >> } ELSE { })

\* Mutant of BuildAwaited: the build is not awaited.
BuildNotAwaited(building) == TRUE

\* `await buildSnippet( ... )` in the loop of buildSnippets, and `await
\* buildSnippets( ... )` in snippetAdapter: the code after it runs once no
\* build is in flight.
BuildAwaited(building) == building = { }

\* The tags buildDocuments shares between the documents and those of each,
\* before the tags of the snippets.
DocumentTags ==
    << [ tag |-> "importmap" ], [ tag |-> "license" ],
       [ tag |-> "style", src |-> "ckeditor5.css" ],
       [ tag |-> "style", src |-> "ckeditor5-premium-features.css" ],
       [ tag |-> "style", src |-> "assets/snippet-styles.css" ],
       [ tag |-> "style", src |-> "snippets/assets/snippet.css" ],
       [ tag |-> "script", src |-> "assets/snippet.js" ],
       [ tag |-> "script", src |-> "snippets/assets/snippet.js" ] >>

ScriptTag(name) == [ tag |-> "script", snippet |-> name ]
StyleTag(name) == [ tag |-> "style", snippet |-> name ]

\* fileExists( path ), on the output files.
FileExists(files, path) == path \in files

\* The loop over the snippets of one document: the tags it pushes.
RECURSIVE SnippetTags(_, _)
SnippetTags(documentSnippets, files) ==
    IF documentSnippets = << >> THEN << >>
    ELSE LET name == documentSnippets[1].snippetName
         IN  (IF FileExists(files, << name, "snippet.js" >>)
              THEN << ScriptTag(name) >> ELSE << >>) \o
             (IF FileExists(files, << name, "snippet.css" >>)
              THEN << StyleTag(name) >> ELSE << >>) \o
             SnippetTags(Tail(documentSnippets), files)

\* documents[ snippet.destinationPath ] ??= []; ...push( snippet ), for each
\* snippet: the documents in the order of their first snippet.
RECURSIVE GroupByDocument(_, _)
GroupByDocument(documents, snippets) ==
    IF snippets = << >> THEN documents
    ELSE LET snippet == snippets[1]
             found == { i \in 1 .. Len(documents) :
                          documents[i].document = snippet.destinationPath }
             grouped == IF found = { }
                        THEN Append(documents, [ document |-> snippet.destinationPath,
                                                 snippets |-> << snippet >> ])
                        ELSE [ documents EXCEPT ![CHOOSE i \in found : TRUE].snippets =
                                                   Append(@, snippet) ]
         IN  GroupByDocument(grouped, Tail(snippets))

\* snippetAdapter( snippets ) as it is called.
StartAdapter(snippets, sources, order, files) ==
    [ status |-> "called",
      snippets |-> snippets,
      sources |-> sources,
      queue |-> order,
      building |-> { },
      files |-> files,
      documents |-> << >>,
      written |-> << >> ]

AdapterUnchanged ==
    UNCHANGED << constantsFiles, resolve, pickerVars, integrationVars >>

\* getPaths reads the first snippet and throws when there is none; then
\* getConstantDefinitions is called.
AdapterStart ==
    /\ adapter.status = "called"
    /\ IF adapter.snippets = << >>
       THEN /\ adapter' = [ adapter EXCEPT !.status = "failed" ]
            /\ UNCHANGED walk
       ELSE /\ adapter' = [ adapter EXCEPT !.status = "constants" ]
            /\ walk' = StartWalk(adapter.snippets)
    /\ AdapterUnchanged

\* getConstantDefinitions threw: snippetAdapter rejects.
AdapterConstantsThrown ==
    /\ adapter.status = "constants"
    /\ walk.status = "thrown"
    /\ adapter' = [ adapter EXCEPT !.status = "failed" ]
    /\ UNCHANGED walk
    /\ AdapterUnchanged

\* getConstantDefinitions returned: the import map is made, the snippets input
\* directory read, and buildSnippets begins.
AdapterBuilds ==
    /\ adapter.status = "constants"
    /\ walk.status = "returned"
    /\ adapter' = [ adapter EXCEPT !.status = "building" ]
    /\ UNCHANGED walk
    /\ AdapterUnchanged

\* The loop of buildSnippets takes the next snippet: one without a JavaScript
\* file is skipped, for another the bundler is started.
BuildNext ==
    /\ adapter.status = "building"
    /\ adapter.queue # << >>
    /\ BuildAwaited(adapter.building)
    /\ LET name == Head(adapter.queue)
       IN  adapter' = IF "js" \notin adapter.sources[name]
                      THEN [ adapter EXCEPT !.queue = Tail(@) ]
                      ELSE [ adapter EXCEPT !.queue = Tail(@),
                                            !.building = @ \cup { name } ]
    /\ UNCHANGED walk
    /\ AdapterUnchanged

\* The bundler resolves for a snippet: its output files are written.
BuildResolve(name) ==
    /\ adapter.status \in { "building", "documents", "done" }
    /\ name \in adapter.building
    /\ adapter' = [ adapter EXCEPT
                      !.building = @ \ { name },
                      !.files = @ \cup BuildOutputs(name, adapter.sources[name]) ]
    /\ UNCHANGED walk
    /\ AdapterUnchanged

\* The bundler rejects for a snippet: buildSnippets and snippetAdapter reject.
BuildReject(name) ==
    /\ adapter.status = "building"
    /\ name \in adapter.building
    /\ adapter' = [ adapter EXCEPT !.building = @ \ { name }, !.status = "failed" ]
    /\ UNCHANGED walk
    /\ AdapterUnchanged

\* buildSnippets is over and buildDocuments begins: the bootstrap example is
\* copied and the snippets are grouped by their document.
BuildDocuments ==
    /\ adapter.status = "building"
    /\ adapter.queue = << >>
    /\ BuildAwaited(adapter.building)
    /\ adapter' = [ adapter EXCEPT
                      !.status = "documents",
                      !.documents =
                          GroupByDocument(<< [ document |-> BootstrapSnippet.destinationPath,
                                               snippets |-> << BootstrapSnippet >> ] >>,
                                          adapter.snippets) ]
    /\ UNCHANGED walk
    /\ AdapterUnchanged

\* One turn of the loop over the documents: the document is read, the
\* placeholder of each of its snippets replaced, the tags of the snippets whose
\* output files exist added, and the document written.
BuildDocument ==
    /\ adapter.status = "documents"
    /\ adapter.documents # << >>
    /\ LET entry == Head(adapter.documents)
       IN  adapter' = [ adapter EXCEPT
                          !.documents = Tail(@),
                          !.written = Append(@,
                              [ document |-> entry.document,
                                snippets |-> [ i \in 1 .. Len(entry.snippets) |->
                                                 entry.snippets[i].snippetName ],
                                tags |-> DocumentTags \o
                                         SnippetTags(entry.snippets, adapter.files) ]) ]
    /\ UNCHANGED walk
    /\ AdapterUnchanged

\* Every document is written: snippetAdapter resolves.
AdapterDone ==
    /\ adapter.status = "documents"
    /\ adapter.documents = << >>
    /\ adapter' = [ adapter EXCEPT !.status = "done" ]
    /\ UNCHANGED walk
    /\ AdapterUnchanged

InitAdapter ==
    /\ dbGroups = DefaultDb /\ InitPlugin /\ InitIntegration
    /\ constantsFiles \in AdapterDisks
    /\ walk = [ status |-> "idle" ]
    /\ adapter \in { StartAdapter(snippets, sources, order, files) :
                       snippets \in AdapterSnippetSets, sources \in SourceTrees,
                       order \in SourceOrders, files \in StaleOutputs }
    /\ resolve = [ status |-> "idle" ]

NextAdapter ==
    \/ AdapterStart
    \/ WalkNextSnippet
    \/ WalkVisit
    \/ WalkLeave
    \/ WalkReturn
    \/ AdapterConstantsThrown
    \/ AdapterBuilds
    \/ BuildNext
    \/ \E name \in adapter.building : BuildResolve(name)
    \/ \E name \in adapter.building : BuildReject(name)
    \/ BuildDocuments
    \/ BuildDocument
    \/ AdapterDone

SpecAdapter == InitAdapter /\ [][NextAdapter]_vars

\* The names of the snippets that have a JavaScript file.
JsSnippets == { name \in DOMAIN adapter.sources : "js" \in adapter.sources[name] }

\* C15: once buildDocuments has begun no build is in flight or still to start
\* and every JavaScript snippet has its snippet.js; and a written document has
\* the script tag of a snippet of it exactly when the snippet's snippet.js
\* exists in the output, the style tag exactly when its snippet.css exists.
C15_BuildsBeforeDocuments ==
    adapter.status \in { "documents", "done" } =>
        /\ adapter.building = { } /\ adapter.queue = << >>
        /\ \A name \in JsSnippets : << name, "snippet.js" >> \in adapter.files
        /\ \A w \in 1 .. Len(adapter.written) :
              LET document == adapter.written[w]
                  tags == { document.tags[t] : t \in 1 .. Len(document.tags) }
              IN  \A i \in 1 .. Len(document.snippets) :
                      /\ ScriptTag(document.snippets[i]) \in tags
                         <=> << document.snippets[i], "snippet.js" >> \in adapter.files
                      /\ StyleTag(document.snippets[i]) \in tags
                         <=> << document.snippets[i], "snippet.css" >> \in adapter.files

\* The adapter is done: a document was written with the script tag of a snippet
\* that was built in this run, and one with a snippet that has no snippet.js
\* and so no script tag.
C15_Witness ==
    /\ adapter.status = "done"
    /\ \E w \in 1 .. Len(adapter.written) :
          \E i \in 1 .. Len(adapter.written[w].snippets) :
              LET name == adapter.written[w].snippets[i]
              IN  /\ name \in { "s1", "s2" }
                  /\ "css" \in adapter.sources[name]
                  /\ \E t \in 1 .. Len(adapter.written[w].tags) :
                        adapter.written[w].tags[t] = ScriptTag(name)
                  /\ \E t \in 1 .. Len(adapter.written[w].tags) :
                        adapter.written[w].tags[t] = StyleTag(name)
    /\ \E w \in 1 .. Len(adapter.written) :
          \E i \in 1 .. Len(adapter.written[w].snippets) :
              LET name == adapter.written[w].snippets[i]
              IN  /\ "js" \notin adapter.sources[name]
                  /\ \A t \in 1 .. Len(adapter.written[w].tags) :
                        adapter.written[w].tags[t] # ScriptTag(name)

=============================================================================
